---- MODULE Spec2Model ----
(***************************************************************************)
(* RecruitIQ interview store (src/src/data.py) and the interview tab that  *)
(* drives it (src/src/tab_interview.py).                                   *)
(*                                                                         *)
(* The three SQLite tables are sequences of rows in rowid order.  A uuid4  *)
(* identifier is a fresh positive number; 0 stands for any identifier that *)
(* was never issued.  A score value is an integer number of half points    *)
(* (the slider's step), an average is the fraction <<sum, count>>.  The    *)
(* columns no operation reads back (interviewer, date, email, phone,       *)
(* position, experience_years) are left out of the rows.                   *)
(***************************************************************************)
EXTENDS Integers, Sequences, FiniteSets

VARIABLES
    sessions,     \* table sessions: rows [id, name]
    candidates,   \* table candidates: rows [id, session_id, name, notes]
    scores,       \* table scores: rows [candidate_id, metric, value], by id
    nextSid,      \* identifiers issued so far for sessions, plus one
    nextCid,      \* identifiers issued so far for candidates, plus one
    lastOp,       \* the store function called last: its identifier argument,
                  \* its outcome, and the connections it opened and left open
    uiMsg,        \* the st.error message the last form submission left on screen
    scoring,      \* per browser session: candidates whose scoring form is open
    save,         \* per browser session: the Save Scores handler's position
    all_data,     \* quick analytics: the rows handed to pd.DataFrame
    top_avg       \* quick analytics: the Top Performers frame

tableVars == <<sessions, candidates, scores, nextSid, nextCid>>
uiVars == <<uiMsg, scoring, save>>
viewVars == <<all_data, top_avg>>

vars == <<sessions, candidates, scores, nextSid, nextCid, lastOp,
          uiMsg, scoring, save, all_data, top_avg>>

\* ------------------------------------------------------------------ bounds

MaxSessions == 1
MaxCandidates == 1
MaxScores == 2
MaxRows == 4
MaxAverage == 2

\* --------------------------------------------------------------- constants

\* Python's None, SQL's NULL
NULL == "<NULL>"

\* an identifier no uuid4 call has returned
NoSuchId == 0

\* The rubric, in the order the form iterates it.  The source lists five
\* metrics; the model keeps the first two ("Projects", "Problem Solving" and
\* "Culture Fit" are left out), which is what a save needs to have a first
\* and a last add_score call with a failure point between them.
METRICS == <<"Communication", "Technical Skills">>

\* st.slider(m, 0.0, 10.0, default, 0.5), in half points
SliderMin == 0
SliderMax == 20

\* the values the model draws from the slider's range
Values == {SliderMin, SliderMax}

\* sqlite3.connect leaves PRAGMA foreign_keys at its default and get_conn
\* issues no PRAGMA: the FOREIGN KEY clauses of the schema are not enforced
ForeignKeys == FALSE

\* ----------------------------------------------------------------- helpers

Range(s) == {s[i] : i \in 1..Len(s)}

RECURSIVE SumValues(_)
SumValues(rows) ==
    IF rows = <<>> THEN 0 ELSE Head(rows).value + SumValues(Tail(rows))

SessionIds == {s.id : s \in Range(sessions)}
CandidateIds == {c.id : c \in Range(candidates)}

\* --------------------------------------------------------------- queries

get_scores_for_candidate(candidate_id) ==
    LET hit(r) == r.candidate_id = candidate_id
        sel == SelectSeq(scores, hit)
    IN  [i \in 1..Len(sel) |-> [metric |-> sel[i].metric, value |-> sel[i].value]]

list_candidates(session_id) ==
    LET hit(c) == c.session_id = session_id
    IN  SelectSeq(candidates, hit)

\* SQL's AVG over no value
NullAvg == <<0, 0>>

\* (changed) an inner join: a candidate no score row matches is dropped
InnerJoin(session_id) ==
    {<<i, j>> \in (1..Len(candidates)) \X (1..Len(scores)) :
        /\ candidates[i].session_id = session_id
        /\ scores[j].candidate_id = candidates[i].id}

\* candidates c LEFT JOIN scores s ON c.id = s.candidate_id
\* WHERE c.session_id = ?: pairs <<i, j>> of a candidate row and a score
\* row, j = 0 for the all-NULL score row of a candidate nothing matches
LeftJoin(session_id) ==
    LET match(i) == {j \in 1..Len(scores) : scores[j].candidate_id = candidates[i].id}
    IN  UNION {IF match(i) = {} THEN {<<i, 0>>} ELSE {<<i, j>> : j \in match(i)}
               : i \in {k \in 1..Len(candidates) : candidates[k].session_id = session_id}}

\* the rows of the query, one per group of GROUP BY c.id, s.metric
get_aggregate_scores(session_id) ==
    LET joined == LeftJoin(session_id)
        metricOf(p) == IF p[2] = 0 THEN NULL ELSE scores[p[2]].metric
        key(p) == <<candidates[p[1]].id, metricOf(p)>>
        member(k) == {p \in joined : key(p) = k}
        rowsOf(k) == LET in(j) == \E p \in member(k) : p[2] = j
                     IN  SelectSeq([j \in 1..Len(scores) |-> [at |-> j, value |-> scores[j].value]],
                                   LAMBDA r : in(r.at))
        nameOf(k) == (CHOOSE c \in Range(candidates) : c.id = k[1]).name
    IN  {[candidate_id |-> k[1],
          name |-> nameOf(k),
          metric |-> k[2],
          avg_value |-> IF rowsOf(k) = <<>> THEN NullAvg
                        ELSE <<SumValues(rowsOf(k)), Len(rowsOf(k))>>]
         : k \in {key(p) : p \in joined}}

\* ------------------------------------------------------- store operations

\* An sqlite3 error raised by conn.execute: control leaves the function
\* before conn.commit() and conn.close(), the tables keep their rows and
\* the connection get_conn opened stays open.
Raise(op, id) ==
    /\ lastOp' = [op |-> op, id |-> id, out |-> "raised", open |-> 1]
    /\ UNCHANGED tableVars

\* conn.commit(); conn.close(); return
Return(op, id) ==
    lastOp' = [op |-> op, id |-> id, out |-> "returned", open |-> 0]

\* (changed) a sessions table whose name column lacks NOT NULL
create_session_nullable(name) ==
    /\ sessions' = Append(sessions, [id |-> nextSid, name |-> name])
    /\ nextSid' = nextSid + 1
    /\ Return("create_session", nextSid)
    /\ UNCHANGED <<candidates, scores, nextCid>>

create_session(name) ==
    IF name = NULL
    THEN Raise("create_session", NoSuchId)    \* NOT NULL constraint failed
    ELSE /\ sessions' = Append(sessions, [id |-> nextSid, name |-> name])
         /\ nextSid' = nextSid + 1
         /\ Return("create_session", nextSid)
         /\ UNCHANGED <<candidates, scores, nextCid>>

add_candidate(session_id, name, notes) ==
    IF ForeignKeys /\ session_id \notin SessionIds
    THEN Raise("add_candidate", session_id)    \* FOREIGN KEY constraint failed
    ELSE /\ candidates' = Append(candidates,
                [id |-> nextCid, session_id |-> session_id,
                 name |-> name, notes |-> notes])
         /\ nextCid' = nextCid + 1
         /\ Return("add_candidate", session_id)
         /\ UNCHANGED <<sessions, scores, nextSid>>

add_score(candidate_id, metric, value) ==
    IF \/ metric = NULL
       \/ ForeignKeys /\ candidate_id \notin CandidateIds
    THEN Raise("add_score", candidate_id)    \* NOT NULL / FOREIGN KEY failed
    ELSE /\ scores' = Append(scores,
                [candidate_id |-> candidate_id, metric |-> metric, value |-> value])
         /\ Return("add_score", candidate_id)
         /\ UNCHANGED <<sessions, candidates, nextSid, nextCid>>

\* (changed) DELETE FROM scores, the WHERE clause lost
ScoresWithoutAny(candidate_id) == <<>>

\* (changed) no DELETE at all: the new rows are merged into the old ones
ScoresKept(candidate_id) == scores

\* DELETE FROM scores WHERE candidate_id = ?
ScoresWithout(candidate_id) ==
    LET keep(r) == r.candidate_id # candidate_id
    IN  SelectSeq(scores, keep)

delete_candidate_scores(candidate_id) ==
    /\ scores' = ScoresWithout(candidate_id)
    /\ Return("delete_candidate_scores", candidate_id)
    /\ UNCHANGED <<sessions, candidates, nextSid, nextCid>>

\* UPDATE candidates SET notes = ? WHERE id = ?
NotesSet(candidate_id, notes) ==
    [i \in 1..Len(candidates) |->
        IF candidates[i].id = candidate_id
        THEN [candidates[i] EXCEPT !.notes = notes]
        ELSE candidates[i]]

update_candidate_notes(candidate_id, notes) ==
    /\ candidates' = NotesSet(candidate_id, notes)
    /\ Return("update_candidate_notes", candidate_id)
    /\ UNCHANGED <<sessions, scores, nextSid, nextCid>>

\* DELETE FROM sessions WHERE id = ? on a connection from get_conn.  The
\* ON DELETE CASCADE clauses act only on a connection that enforces foreign
\* keys.
delete_session(session_id) ==
    LET keepS(s) == s.id # session_id
        gone == IF ForeignKeys
                THEN {c.id : c \in {x \in Range(candidates) : x.session_id = session_id}}
                ELSE {}
        keepC(c) == c.id \notin gone
        keepR(r) == r.candidate_id \notin gone
    IN  /\ sessions' = SelectSeq(sessions, keepS)
        /\ candidates' = SelectSeq(candidates, keepC)
        /\ scores' = SelectSeq(scores, keepR)
        /\ Return("delete_session", session_id)
        /\ UNCHANGED <<nextSid, nextCid>>

\* ------------------------------------------------- the store, called freely

SessionNames == {NULL, "", "S1"}
CandidateNames == {"Jane"}
MetricArgs == Range(METRICS) \cup {NULL}
NoteArgs == {NULL, "n"}
SessionArgs == SessionIds \cup {NoSuchId}
CandidateArgs == CandidateIds \cup {NoSuchId}

Idle == [pc |-> "idle"]

\* an empty database behind one browser session
InitStore ==
    /\ sessions = <<>>
    /\ candidates = <<>>
    /\ scores = <<>>
    /\ nextSid = 1
    /\ nextCid = 1
    /\ lastOp = [op |-> "init_db", id |-> NoSuchId, out |-> "returned", open |-> 0]
    /\ uiMsg = ""
    /\ scoring = [u \in {1} |-> {}]
    /\ save = [u \in {1} |-> Idle]

Init ==
    /\ InitStore
    /\ all_data = <<>>
    /\ top_avg = <<>>

CreateSession ==
    /\ nextSid <= MaxSessions
    /\ \E name \in SessionNames : create_session(name)
    /\ UNCHANGED <<uiVars, viewVars>>

AddCandidate ==
    /\ nextCid <= MaxCandidates
    /\ \E sid \in SessionArgs, name \in CandidateNames :
            add_candidate(sid, name, NULL)
    /\ UNCHANGED <<uiVars, viewVars>>

AddScore ==
    /\ Len(scores) < MaxScores
    /\ \E cid \in CandidateArgs, m \in MetricArgs, v \in Values :
            add_score(cid, m, v)
    /\ UNCHANGED <<uiVars, viewVars>>

DeleteCandidateScores ==
    /\ \E cid \in CandidateArgs : delete_candidate_scores(cid)
    /\ UNCHANGED <<uiVars, viewVars>>

UpdateCandidateNotes ==
    /\ \E cid \in CandidateArgs, n \in NoteArgs :
            update_candidate_notes(cid, n)
    /\ UNCHANGED <<uiVars, viewVars>>

DeleteSession ==
    /\ \E sid \in SessionArgs : delete_session(sid)
    /\ UNCHANGED <<uiVars, viewVars>>

\* Sessions, candidates and their scores.
Next ==
    \/ CreateSession
    \/ AddCandidate
    \/ AddScore
    \/ DeleteCandidateScores

Spec == Init /\ [][Next]_vars

\* Every statement a connection from get_conn can run on the three tables.
NextStore ==
    \/ CreateSession
    \/ AddCandidate
    \/ AddScore
    \/ DeleteCandidateScores
    \/ UpdateCandidateNotes
    \/ DeleteSession

SpecStore == Init /\ [][NextStore]_vars

\* ------------------------------------------------------ the interview tab

Users == DOMAIN save

\* what the text inputs of the forms can hold
FormSessionNames == {"", "S1"}
FormCandidateNames == {"", "Jane"}
FormNotes == {"", "n"}

\* vals: one slider value per metric, in the order of METRICS
FormVals == [1..Len(METRICS) -> Values]

ErrSessionName == "Please enter a session name"
ErrCandidateName == "Please enter candidate name"

\* the (metric, value) rows a Save Scores submission writes
NewRows(vals) == [i \in 1..Len(METRICS) |-> [metric |-> METRICS[i], value |-> vals[i]]]

\* the handler is between two store calls
Saving(u) == save[u].pc \in {"delete", "adding", "notes"}

\* show_session_management, on Create Session
SubmitCreateSession(u) ==
    /\ ~Saving(u)
    /\ \E name \in FormSessionNames :
          IF name = ""
          THEN /\ uiMsg' = ErrSessionName
               /\ UNCHANGED <<tableVars, lastOp>>
          ELSE /\ nextSid <= MaxSessions
               /\ create_session(name)
               /\ uiMsg' = ""
    /\ save' = [save EXCEPT ![u] = Idle]
    /\ UNCHANGED <<scoring, viewVars>>

\* show_candidate_evaluation, on Add Candidate
SubmitAddCandidate(u) ==
    /\ ~Saving(u)
    /\ sessions # <<>>
    /\ \E session_id \in SessionIds, cname \in FormCandidateNames, notes \in FormNotes :
          IF cname = ""
          THEN /\ uiMsg' = ErrCandidateName
               /\ UNCHANGED <<tableVars, lastOp>>
          ELSE /\ nextCid <= MaxCandidates
               /\ add_candidate(session_id, cname, IF notes = "" THEN NULL ELSE notes)
               /\ uiMsg' = ""
    /\ save' = [save EXCEPT ![u] = Idle]
    /\ UNCHANGED <<scoring, viewVars>>

\* the candidates the evaluation view lists for the selected session
Listed == UNION {{c.id : c \in Range(list_candidates(sid))} : sid \in SessionIds}

\* on the Score button of a listed candidate
ClickScore(u) ==
    /\ ~Saving(u)
    /\ \E cid \in Listed \ scoring[u] :
          scoring' = [scoring EXCEPT ![u] = @ \cup {cid}]
    /\ save' = [save EXCEPT ![u] = Idle]
    /\ uiMsg' = ""
    /\ UNCHANGED <<tableVars, lastOp, viewVars>>

\* _score_candidate, on Cancel
CancelScore(u) ==
    /\ ~Saving(u)
    /\ \E cid \in scoring[u] \cap Listed :
          scoring' = [scoring EXCEPT ![u] = @ \ {cid}]
    /\ save' = [save EXCEPT ![u] = Idle]
    /\ uiMsg' = ""
    /\ UNCHANGED <<tableVars, lastOp, viewVars>>

\* _score_candidate, on Save Scores: the form's values are read.  The
\* overlap field is history: it records that another browser session's
\* save of the same candidate was under way when this one began.
SaveSubmit(u) ==
    /\ ~Saving(u)
    /\ \E cid \in scoring[u] \cap Listed, vals \in FormVals, note \in FormNotes :
          save' = [v \in Users |->
                      IF v = u
                      THEN [pc |-> "delete", cand |-> cid, vals |-> vals, note |-> note,
                            idx |-> 0, at |-> "", old |-> get_scores_for_candidate(cid),
                            overlap |-> \E w \in Users \ {u} :
                                            Saving(w) /\ save[w].cand = cid]
                      ELSE IF Saving(v) /\ save[v].cand = cid
                      THEN [save[v] EXCEPT !.overlap = TRUE]
                      ELSE save[v]]
    /\ uiMsg' = ""
    /\ UNCHANGED <<tableVars, lastOp, scoring, viewVars>>

\* data.delete_candidate_scores(candidate_id)
SaveDelete(u) ==
    /\ save[u].pc = "delete"
    /\ delete_candidate_scores(save[u].cand)
    /\ save' = [save EXCEPT ![u].pc = "adding"]
    /\ UNCHANGED <<uiMsg, scoring, viewVars>>

\* one turn of: for metric, val in vals.items(): data.add_score(...)
SaveAdd(u) ==
    /\ save[u].pc = "adding"
    /\ LET i == save[u].idx + 1
       IN  /\ add_score(save[u].cand, METRICS[i], save[u].vals[i])
           /\ IF i < Len(METRICS)
              THEN /\ save' = [save EXCEPT ![u].idx = i]
                   /\ UNCHANGED scoring
              ELSE IF save[u].note # ""
              THEN /\ save' = [save EXCEPT ![u].idx = i, ![u].pc = "notes"]
                   /\ UNCHANGED scoring
              ELSE /\ save' = [save EXCEPT ![u].idx = i, ![u].pc = "done"]
                   /\ scoring' = [scoring EXCEPT ![u] = @ \ {save[u].cand}]
    /\ UNCHANGED <<uiMsg, viewVars>>

\* if note: data.update_candidate_notes(candidate_id, note)
SaveNotes(u) ==
    /\ save[u].pc = "notes"
    /\ update_candidate_notes(save[u].cand, save[u].note)
    /\ save' = [save EXCEPT ![u].pc = "done"]
    /\ scoring' = [scoring EXCEPT ![u] = @ \ {save[u].cand}]
    /\ UNCHANGED <<uiMsg, viewVars>>

\* the store call the handler is about to make raises (the database is
\* locked, the disk is full, the process dies): nothing catches it, the
\* handler's remaining calls are not made
SaveFails(u) ==
    /\ Saving(u)
    /\ Raise(CASE save[u].pc = "delete" -> "delete_candidate_scores"
              [] save[u].pc = "adding" -> "add_score"
              [] save[u].pc = "notes" -> "update_candidate_notes",
             save[u].cand)
    /\ save' = [save EXCEPT ![u].pc = "failed", ![u].at = save[u].pc]
    /\ UNCHANGED <<uiMsg, scoring, viewVars>>

\* One browser session using the tab.
NextUI ==
    \/ \E u \in Users : SubmitCreateSession(u)
    \/ \E u \in Users : SubmitAddCandidate(u)
    \/ \E u \in Users : ClickScore(u)
    \/ \E u \in Users : CancelScore(u)
    \/ \E u \in Users : SaveSubmit(u)
    \/ \E u \in Users : SaveDelete(u)
    \/ \E u \in Users : SaveAdd(u)
    \/ \E u \in Users : SaveNotes(u)
    \/ \E u \in Users : SaveFails(u)

SpecUI == Init /\ [][NextUI]_vars

\* Two browser sessions on the same database, with a session and one
\* unscored candidate stored and the candidate's scoring form open in both:
\* each browser session runs the script on its own, and the store calls of
\* their handlers interleave call by call.
InitTwo ==
    /\ sessions = <<[id |-> 1, name |-> "S1"]>>
    /\ candidates = <<[id |-> 1, session_id |-> 1, name |-> "Jane", notes |-> NULL]>>
    /\ scores = <<>>
    /\ nextSid = 2
    /\ nextCid = 2
    /\ lastOp = [op |-> "add_candidate", id |-> 1, out |-> "returned", open |-> 0]
    /\ uiMsg = ""
    /\ scoring = [u \in {1, 2} |-> {1}]
    /\ save = [u \in {1, 2} |-> Idle]
    /\ all_data = <<>>
    /\ top_avg = <<>>

\* each of the two saves the form once
NextTwo ==
    \/ \E u \in Users : SaveSubmit(u)
    \/ \E u \in Users : SaveDelete(u)
    \/ \E u \in Users : SaveAdd(u)
    \/ \E u \in Users : SaveNotes(u)

SpecTwo == InitTwo /\ [][NextTwo]_vars

\* ------------------------------------------------ the two average scores

\* {s['metric']: s['value'] for s in scores}: a later row of a metric
\* overwrites an earlier one
score_dict(rows) ==
    [m \in {rows[i].metric : i \in 1..Len(rows)} |->
        LET last == CHOOSE i \in 1..Len(rows) :
                        /\ rows[i].metric = m
                        /\ \A j \in 1..Len(rows) : rows[j].metric = m => j <= i
        IN  rows[last].value]

\* sum(d.values())
RECURSIVE SumDict(_, _)
SumDict(d, keys) ==
    IF keys = {} THEN 0
    ELSE LET k == CHOOSE x \in keys : TRUE
         IN  d[k] + SumDict(d, keys \ {k})

\* show_candidate_evaluation: sum(score_dict.values()) / len(score_dict),
\* for a candidate with score rows
EvaluationAverage(candidate_id) ==
    LET d == score_dict(get_scores_for_candidate(candidate_id))
    IN  <<SumDict(d, DOMAIN d), Cardinality(DOMAIN d)>>

\* show_quick_analytics: sum(s['value'] for s in scores) / len(scores),
\* for a candidate with score rows
QuickAverage(candidate_id) ==
    LET rows == get_scores_for_candidate(candidate_id)
    IN  <<SumValues(rows), Len(rows)>>

\* ------------------------------------------------- quick analytics: top 3

\* df.nlargest(3, 'Average')
TopN == 3

\* pd.DataFrame(all_data): the rows under the default index 0, 1, ...
DataFrame(rows) ==
    [i \in 1..Len(rows) |->
        [index |-> i - 1, Candidate |-> rows[i].Candidate, Average |-> rows[i].Average]]

Descending(frame) ==
    \A i \in 1..(Len(frame) - 1) : frame[i].Average >= frame[i + 1].Average

\* (changed) a row goes before the rows of equal Average already placed
InsertBeforeTies(row, sorted) ==
    LET before == {i \in 1..Len(sorted) : sorted[i].Average > row.Average}
        k == Cardinality(before)
    IN  SubSeq(sorted, 1, k) \o <<row>> \o SubSeq(sorted, k + 1, Len(sorted))

\* a row goes behind every row already placed whose Average is not smaller
InsertStable(row, sorted) ==
    LET before == {i \in 1..Len(sorted) : sorted[i].Average >= row.Average}
        k == Cardinality(before)
    IN  SubSeq(sorted, 1, k) \o <<row>> \o SubSeq(sorted, k + 1, Len(sorted))

\* argsort(kind="mergesort") of the negated column: descending, rows of
\* equal Average in the order of the frame
RECURSIVE StableSortDesc(_)
StableSortDesc(frame) ==
    IF frame = <<>> THEN <<>>
    ELSE InsertStable(frame[Len(frame)],
                      StableSortDesc(SubSeq(frame, 1, Len(frame) - 1)))

\* Series.sort_values(ascending=False) with its default kind="quicksort":
\* descending, rows of equal Average in an order the sort does not promise
SortValuesDesc(frame) ==
    LET n == Len(frame)
        perms == {f \in [1..n -> 1..n] : \A i, j \in 1..n : f[i] = f[j] => i = j}
    IN  {g \in {[i \in 1..n |-> frame[f[i]]] : f \in perms} : Descending(g)}

\* the frames nlargest(n, 'Average') (keep='first') can return: with n rows
\* or fewer in the frame it is sort_values(ascending=False).head(n);
\* otherwise the first n rows of the stable descending order
nlargest(n, frame) ==
    IF n >= Len(frame)
    THEN SortValuesDesc(frame)
    ELSE {SubSeq(StableSortDesc(frame), 1, n)}

RowInputs == [Candidate : {"Alice", "Bob"}, Average : 0..MaxAverage]

\* the rows quick analytics has built for a session's scored candidates
InitTop ==
    /\ InitStore
    /\ all_data \in UNION {[1..n -> RowInputs] : n \in 0..MaxRows}
    /\ top_avg = <<>>

\* show_quick_analytics, from "if not all_data" on
TopPerformers ==
    /\ all_data # <<>>
    /\ top_avg = <<>>
    /\ top_avg' \in nlargest(TopN, DataFrame(all_data))
    /\ UNCHANGED <<tableVars, lastOp, uiVars, all_data>>

NextTop ==
    \/ TopPerformers

SpecTop == InitTop /\ [][NextTop]_vars

\* ------------------------------------------------------------ properties

RECURSIVE TotalAt(_)
TotalAt(S) ==
    IF S = {} THEN 0
    ELSE LET j == CHOOSE x \in S : TRUE
         IN  scores[j].value + TotalAt(S \ {j})

ScoreRowsOf(cid) == {j \in 1..Len(scores) : scores[j].candidate_id = cid}
ScoreRowsFor(cid, m) == {j \in ScoreRowsOf(cid) : scores[j].metric = m}

\* C1: once a session has been deleted, no candidate row references it and
\* no score row references a candidate that went with it.  (Identifiers are
\* never reissued: an issued session identifier that is absent from the
\* table is a deleted session, an issued candidate identifier that is
\* absent is a candidate that a cascade removed.)
C1_CascadeOnDelete ==
    \A sid \in (1..(nextSid - 1)) \ SessionIds :
        /\ \A c \in Range(candidates) : c.session_id # sid
        /\ \A r \in Range(scores) :
                r.candidate_id \in 1..(nextCid - 1) => r.candidate_id \in CandidateIds

\* C2: once a Save Scores action has run to completion, the candidate's
\* score rows are exactly the submitted (metric, value) pairs, one row each,
\* and no pair of the old rows that the submission lacks remains.
C2_ReplaceIsWholesale ==
    \A u \in Users : save[u].pc = "done" =>
        LET got == get_scores_for_candidate(save[u].cand)
            new == Range(NewRows(save[u].vals))
        IN  /\ Range(got) = new
            /\ Len(got) = Cardinality(new)
            /\ \A r \in Range(save[u].old) : r \notin new => r \notin Range(got)

\* C2 witness: a save has completed for a candidate whose old rows held a
\* pair the submission lacks.
C2_Witness ==
    \E u \in Users :
        /\ save[u].pc = "done"
        /\ \E r \in Range(save[u].old) : r \notin Range(NewRows(save[u].vals))

\* the handler failed after its delete was committed and before the last
\* add_score was
FailedMidway(u) ==
    /\ save[u].pc = "failed"
    /\ save[u].at = "adding"

\* C3 as stated: a save that fails after its delete and before the end of
\* its re-insertion leaves the candidate with no score row.
C3_FailureLeavesNoScores ==
    \A u \in Users : FailedMidway(u) =>
        get_scores_for_candidate(save[u].cand) = <<>>

\* C3 as amended: a save that fails after its delete and after k of its
\* add_score calls leaves exactly the first k submitted rows: no row when
\* it fails before the first add_score, a part of the new set otherwise,
\* and never a row of the old set that the submission lacks.
C3_FailureLeavesPrefix ==
    \A u \in Users : FailedMidway(u) =>
        LET got == get_scores_for_candidate(save[u].cand)
        IN  /\ save[u].idx < Len(METRICS)
            /\ got = SubSeq(NewRows(save[u].vals), 1, save[u].idx)
            /\ save[u].idx = 0 => got = <<>>

\* C3 witness: a save over old rows has failed between two add_score calls.
C3_Witness ==
    \E u \in Users :
        /\ FailedMidway(u)
        /\ save[u].old # <<>>
        /\ save[u].idx > 0

\* C7: with one user, no candidate ever has two score rows for one metric.
C7_OneRowPerMetric ==
    \A j, k \in 1..Len(scores) :
        (j # k /\ scores[j].candidate_id = scores[k].candidate_id)
            => scores[j].metric # scores[k].metric

\* C7 witness: a save has completed over a full set of old rows.
C7_Witness ==
    \E u \in Users :
        /\ save[u].pc = "done"
        /\ Len(save[u].old) = Len(METRICS)
        /\ Len(get_scores_for_candidate(save[u].cand)) = Len(METRICS)

\* the rows of the frame that the Top Performers frame lacks
Omitted == Range(DataFrame(all_data)) \ Range(top_avg)

\* the Top Performers frame holds min(n, length) different rows of the
\* input, every one with an average no smaller than any omitted row's, and
\* of rows of equal average the earlier ones of the input are the selected
TopSelection ==
    /\ Len(top_avg) = IF TopN < Len(all_data) THEN TopN ELSE Len(all_data)
    /\ Range(top_avg) \subseteq Range(DataFrame(all_data))
    /\ Cardinality(Range(top_avg)) = Len(top_avg)
    /\ Descending(top_avg)
    /\ \A t \in Range(top_avg), o \in Omitted :
          /\ t.Average >= o.Average
          /\ t.Average = o.Average => t.index < o.index

\* rows of equal average are ranked in their order in the input
TiesInInputOrder ==
    \A i, j \in 1..Len(top_avg) :
        (i < j /\ top_avg[i].Average = top_avg[j].Average)
            => top_avg[i].index < top_avg[j].index

\* C9 as stated: the first n rows by average descending, rows of equal
\* average ranked and selected in input order, whatever the input.
C9_TopPerformersStable ==
    top_avg # <<>> => (TopSelection /\ TiesInInputOrder)

\* C9 as amended: the selection is as stated; rows of equal average are
\* ranked in input order when the input has more than n rows.
C9_TopPerformers ==
    top_avg # <<>> =>
        /\ TopSelection
        /\ Len(all_data) > TopN => TiesInInputOrder

\* C9 witness: more rows than n, a tie inside the selection and a tie across
\* the cut.
C9_Witness ==
    /\ Len(all_data) > TopN
    /\ Len(top_avg) = TopN
    /\ top_avg[1].Average = top_avg[2].Average
    /\ \E o \in Omitted : o.Average = top_avg[TopN].Average

\* C4 as stated: create_session inserts a row only for a non-empty name.
C4_EmptyNameRejected ==
    [][(lastOp'.op = "create_session" /\ Len(sessions') > Len(sessions))
          => sessions'[Len(sessions')].name # ""]_vars

\* C4 as amended: create_session requires a name that is not None.  A call
\* that raises leaves the sessions as they were; a call that returns has
\* appended exactly one row, whose name is a string (possibly empty) and
\* whose identifier is the returned one, never issued before.
C4_NameRequired ==
    [][lastOp'.op = "create_session" =>
          \/ /\ lastOp'.out = "raised"
             /\ sessions' = sessions
          \/ /\ lastOp'.out = "returned"
             /\ Len(sessions') = Len(sessions) + 1
             /\ SubSeq(sessions', 1, Len(sessions)) = sessions
             /\ sessions'[Len(sessions')].name # NULL
             /\ sessions'[Len(sessions')].id = lastOp'.id
             /\ lastOp'.id \notin 0..(nextSid - 1)]_vars

\* C4 witness: create_session has returned for the empty name, whose row
\* is in the table.
C4_Witness ==
    /\ lastOp.op = "create_session"
    /\ lastOp.out = "returned"
    /\ \E s \in Range(sessions) : s.id = lastOp.id /\ s.name = ""

\* C5: a store operation that has returned or raised has left none of the
\* connections it opened open.
C5_ConnectionsReleased ==
    lastOp.out \in {"returned", "raised"} => lastOp.open = 0

\* C6: every candidate row references an existing session and every score
\* row references an existing candidate.
C6_ReferentialIntegrity ==
    /\ \A c \in Range(candidates) : c.session_id \in SessionIds
    /\ \A r \in Range(scores) : r.candidate_id \in CandidateIds

\* C8: for every session identifier, get_aggregate_scores returns exactly
\* one row per candidate of the session and metric the candidate has a score
\* row for, carrying the mean of those rows' values; exactly one row, with
\* NULL metric and NULL average, per candidate of the session without score
\* rows; and no other row.
C8_AggregatePerCandidateMetric ==
    \A sid \in SessionArgs \cup {c.session_id : c \in Range(candidates)} :
        LET res == get_aggregate_scores(sid)
            mine == {c \in Range(candidates) : c.session_id = sid}
            metricsOf(cid) == {scores[j].metric : j \in ScoreRowsOf(cid)}
        IN  /\ \A c \in mine : \A m \in metricsOf(c.id) :
                    LET rs == {r \in res : r.candidate_id = c.id /\ r.metric = m}
                    IN  /\ Cardinality(rs) = 1
                        /\ \A r \in rs :
                              /\ r.name = c.name
                              /\ r.avg_value[2] > 0
                              /\ r.avg_value[1] * Cardinality(ScoreRowsFor(c.id, m))
                                    = TotalAt(ScoreRowsFor(c.id, m)) * r.avg_value[2]
            /\ \A c \in mine : metricsOf(c.id) = {} =>
                    LET rs == {r \in res : r.candidate_id = c.id}
                    IN  /\ Cardinality(rs) = 1
                        /\ \A r \in rs : r.metric = NULL /\ r.avg_value = NullAvg
            /\ \A r \in res :
                    /\ \E c \in mine : c.id = r.candidate_id
                    /\ IF r.metric = NULL
                       THEN metricsOf(r.candidate_id) = {}
                       ELSE r.metric \in metricsOf(r.candidate_id)

\* C8 witness: a candidate of an existing session holds two rows of
\* different values for one metric, and the query returns one row for it.
C8_Witness ==
    \E c \in Range(candidates) :
        /\ c.session_id \in SessionIds
        /\ Cardinality(get_aggregate_scores(c.session_id)) = 1
        /\ \E j, k \in ScoreRowsOf(c.id) :
                /\ scores[j].metric = scores[k].metric
                /\ scores[j].value # scores[k].value

\* C10: a call delete_candidate_scores(c) leaves get_scores_for_candidate(c)
\* empty and changes neither the score rows of any other candidate nor a
\* session or candidate row.
C10_DeleteScoresFrame ==
    [][\A cid \in CandidateArgs :
          lastOp' = [op |-> "delete_candidate_scores", id |-> cid,
                     out |-> "returned", open |-> 0]
          => /\ get_scores_for_candidate(cid)' = <<>>
             /\ \A other \in CandidateArgs \ {cid} :
                    get_scores_for_candidate(other)' = get_scores_for_candidate(other)
             /\ Len(scores') = Len(scores) - Cardinality(ScoreRowsOf(cid))
             /\ sessions' = sessions
             /\ candidates' = candidates]_vars

\* C10 witness: delete_candidate_scores has returned for an existing
\* candidate while score rows under another identifier are in the table.
C10_Witness ==
    /\ lastOp.op = "delete_candidate_scores"
    /\ lastOp.id \in CandidateIds
    /\ get_scores_for_candidate(lastOp.id) = <<>>
    /\ scores # <<>>

\* the candidate's score rows are the complete new set of a submission
HasSetOf(cid, vals) ==
    LET got == get_scores_for_candidate(cid)
    IN  /\ Range(got) = Range(NewRows(vals))
        /\ Len(got) = Len(METRICS)

\* both browser sessions' saves of one candidate have run to completion
BothSaved(u, v) ==
    /\ u # v
    /\ save[u].pc = "done"
    /\ save[v].pc = "done"
    /\ save[u].cand = save[v].cand

\* the final rows are neither save's complete new set
Mixed(u, v) ==
    /\ ~HasSetOf(save[u].cand, save[u].vals)
    /\ ~HasSetOf(save[u].cand, save[v].vals)

\* C11: when two replace-all saves of one candidate ran one after the other
\* (neither began while the other was under way), the candidate's final
\* score rows are the complete new set of one of them; a final state whose
\* rows are neither set is reached only by saves whose store calls
\* interleaved, and such a state is reachable (C11_Witness).
C11_SequentialSavesReplace ==
    \A u \in Users, v \in Users :
        BothSaved(u, v) /\ Mixed(u, v) => save[u].overlap /\ save[v].overlap

\* C11 witness: two saves of one candidate interleaved and both completed,
\* and a metric of the candidate has two rows of different values.
C11_Witness ==
    \E u \in Users, v \in Users :
        /\ BothSaved(u, v)
        /\ Mixed(u, v)
        /\ \E r \in ScoreRowsOf(save[u].cand), q \in ScoreRowsOf(save[u].cand) :
              /\ scores[r].metric = scores[q].metric
              /\ scores[r].value # scores[q].value

\* two saves of one candidate with different values ran one after the other
C11_SequentialCase ==
    \E u \in Users, v \in Users :
        /\ BothSaved(u, v)
        /\ ~save[u].overlap
        /\ ~save[v].overlap
        /\ save[u].vals # save[v].vals

\* two fractions <<sum, count>> of positive count are the same number
SameAverage(a, b) == a[1] * b[2] = b[1] * a[2]

\* C12: for every candidate with score rows, the evaluation view's average
\* and the quick analytics average are the same number, the arithmetic mean
\* of the candidate's score rows.
C12_AveragesAgree ==
    \A cid \in CandidateIds : ScoreRowsOf(cid) # {} =>
        LET mean == <<TotalAt(ScoreRowsOf(cid)), Cardinality(ScoreRowsOf(cid))>>
        IN  /\ SameAverage(EvaluationAverage(cid), QuickAverage(cid))
            /\ SameAverage(QuickAverage(cid), mean)
            /\ SameAverage(EvaluationAverage(cid), mean)

====
